---- MODULE Spec2Model ----
(***************************************************************************)
(* ReachyMiniController (Assets/Scripts/ReachyMiniController.ts): the      *)
(* Idle <-> LookAtTarget state machine, the idle loop driver that replays  *)
(* a recorded move, and the per-frame look-at pose synthesizer.            *)
(*                                                                         *)
(* Units.  Angles are integers in millidegrees (the source computes in     *)
(* radians; N * PI / 180 is N * 1000 here).  Smoothing factors are per     *)
(* mille.  motionIntensity is in 1/10000.  Time is in ticks of 1/20 s.     *)
(* Positions are in 1/1000 of a scene unit.  Products are truncated        *)
(* towards zero.                                                           *)
(***************************************************************************)
EXTENDS Integers, Sequences, FiniteSets, TLC

VARIABLES
    currentState,          \* RobotState
    daemonInterface,       \* TRUE iff the DaemonInterface input is bound
    currentAnimation,      \* cancel handle: id of a tween, 0 = null
    attentive2MoveUuid,    \* 0 = null
    isAttentive2Looping,
    lookAtUpdateEvent,     \* TRUE iff the UpdateEvent is registered
    idleUpdateEvent,       \* TRUE iff the UpdateEvent is registered
    lastMoveCheckTime,
    moveStartTime,
    track,                 \* headYaw .. lastHeadPitch, trackingStartTime
    entityEnabled,         \* controlledEntity.enabled
    tweens,                \* running animate() tweens
    animCount,             \* number of tweens started so far
    pendingGoto,           \* startAttentive2Loop calls awaiting daemon.goto
    pendingPlay,           \* playAttentive2Loop calls awaiting playRecordedMove
    pendingQuery,          \* checkMoveCompletion calls awaiting getRunningMoves
    running,               \* daemon side: uuids of the moves that are running
    nextUuid,              \* daemon side: next uuid to hand out
    stopRequested,         \* daemon side: uuids a stopMove was sent for
    now,                   \* getTime()
    target,                \* target position relative to the look-at centre
    frames,                \* number of frames rendered
    toggles,               \* number of button events that changed the state
    jumps,                 \* number of target moves
    prev,                  \* tracking state and target before the last update
    sentPose,              \* the last set-target command transmitted
    pendingSetTarget,      \* daemon.setTarget calls whose promise is unsettled
    lastLaunchTime,        \* when the latest playRecordedMove call that is
                           \* awaiting its response was made, -1 = none is
    http,                  \* the DaemonInterface call under way, if any
    out                    \* effects of the last handler run, in order

vars == <<currentState, daemonInterface, currentAnimation, attentive2MoveUuid,
          isAttentive2Looping, lookAtUpdateEvent, idleUpdateEvent,
          lastMoveCheckTime, moveStartTime, track, entityEnabled, tweens,
          animCount, pendingGoto, pendingPlay, pendingQuery, running, nextUuid,
          stopRequested, now, target, frames, toggles,
          jumps, prev, sentPose, pendingSetTarget, lastLaunchTime, http,
          out>>

----------------------------------------------------------------------------
(* Bounds of the exploration *)

MaxToggles == 2
MaxFrames == 3
MaxMoves == 1
MaxTicks == 40
MaxJumps == 1
MaxHoldTicks == 300
Tolerance == 100

\* frame durations explored: a regular frame (50 ms) and a stalled one (2.5 s)
FrameDurations == {1, 50}

----------------------------------------------------------------------------
(* Program constants *)

Uninitialized == "Uninitialized"
Idle == "Idle"
LookAtTarget == "LookAtTarget"

moveCheckInterval == 2
FALLBACK_DURATION == 100
TWEEN_DURATION == 20
VISIBLE_SCALE == 300

HEAD_YAW_SMOOTHING == 60
HEAD_PITCH_SMOOTHING == 40
BODY_SMOOTHING == 40
ANTENNA_SMOOTHING == 25
\* a smoothing factor above 1 (2.5 for 0.05)
MOTION_INTENSITY_SMOOTHING_above1 == 50 * 50
MOTION_INTENSITY_SMOOTHING == 50
MAX_YAW_CHANGE_PER_FRAME == 3000
MAX_PITCH_CHANGE_PER_FRAME == 1500
MAX_ANTENNA_CHANGE_PER_FRAME == 2000

MIN_PITCH == -30000
MAX_PITCH == 20000
MAX_HEAD_YAW == 35000
MAX_BODY_YAW == 160000
MAX_ANTENNA == 45000
MAX_ROLL == 10000

PITCH_WOBBLE_AMPLITUDE == 6000
YAW_WOBBLE_AMPLITUDE == 5000
ROLL_WOBBLE_AMPLITUDE == 8000
ANTENNA_BASE_AMPLITUDE == 8000
ANTENNA_MOTION_AMPLITUDE == 20000
WOBBLE_SPEED == 400
FULL_INTENSITY_VELOCITY == 5000
HORIZONTAL_EPSILON == 1
ANTENNA_YAW_COUPLING == 200

----------------------------------------------------------------------------
(* Arithmetic *)

Abs(x) == IF x < 0 THEN -x ELSE x

Sign(x) == IF x > 0 THEN 1 ELSE IF x < 0 THEN -1 ELSE 0

Max(a, b) == IF a > b THEN a ELSE b

Min(a, b) == IF a < b THEN a ELSE b

\* x * num / den, truncated towards zero
Scale(x, num, den) ==
    IF x >= 0 THEN (x * num) \div den ELSE -(((-x) * num) \div den)

RECURSIVE SqrtIter(_, _, _)
SqrtIter(n, lo, hi) ==
    IF lo >= hi THEN lo
    ELSE LET mid == (lo + hi + 1) \div 2
         IN  IF mid * mid <= n THEN SqrtIter(n, mid, hi)
                               ELSE SqrtIter(n, lo, mid - 1)

\* Math.sqrt, rounded down
Sqrt(n) == SqrtIter(n, 0, Min(n, 46340))

\* sin of an angle in [0, PI] given in milliradians, times 1000
\* (16 x (PI - x) / (5 PI^2 - 4 x (PI - x)))
SinHalf(x) ==
    LET p == x * (3142 - x)
    IN  Min(1000, (16 * Max(p, 0)) \div ((49348022 - 4 * Max(p, 0)) \div 1000))

\* Math.sin of an angle >= 0 given in 1/100000 rad, times 1000
Sin(a) ==
    LET r == a % 628319
    IN  IF r > 314159 THEN -SinHalf((r - 314159) \div 100)
                      ELSE SinHalf(r \div 100)

\* atan of q / 1000 for q in 0 .. 1000, in millidegrees
AtanUnit(q) ==
    45 * q + (((q * (1000 - q)) \div 100) * (14020 + (3800 * q) \div 1000)) \div 10000

\* Math.atan2(y, x) in millidegrees
Atan2(y, x) ==
    LET a == Abs(y)
        b == Abs(x)
        base == IF a = 0 /\ b = 0 THEN 0
                ELSE IF a <= b THEN AtanUnit((1000 * a) \div b)
                ELSE 90000 - AtanUnit((1000 * b) \div a)
    IN  IF x >= 0 THEN (IF y < 0 THEN -base ELSE base)
        ELSE (IF y < 0 THEN -(180000 - base) ELSE 180000 - base)

\* clamp(val, min, max)
clamp(val, lo, hi) == Max(lo, Min(hi, val))

dampenChange(delta, maxDelta) == clamp(delta, -maxDelta, maxDelta)

\* computeWobble: t in time ticks, amplitude in millidegrees, speedMultiplier
\* per mille, phaseOffset in 1/100000 rad
computeWobble(t, amplitude, speedMultiplier, phaseOffset) ==
    LET speed == (WOBBLE_SPEED * speedMultiplier) \div 10
        a1 == (speed * t) \div 20 + phaseOffset
        a2 == (((speed * 17) \div 10) * t) \div 20 + (phaseOffset * 7) \div 10
        a3 == (((speed * 23) \div 10) * t) \div 20 + (phaseOffset * 13) \div 10
    IN  Scale(amplitude, 5 * Sin(a1) + 3 * Sin(a2) + 2 * Sin(a3), 10000)

\* computeDesiredAngles without the branch for horizontalDist < 0.001
computeDesiredAngles_noSingularity(headYaw, dir) ==
    LET horizontalDist == Sqrt(dir.x * dir.x + dir.z * dir.z)
    IN  [yaw |-> Atan2(dir.x, dir.z),
         pitch |-> -Atan2(dir.y, horizontalDist)]

\* computeDesiredAngles: dir is targetPos - centerPos
computeDesiredAngles(headYaw, dir) ==
    LET horizontalDist == Sqrt(dir.x * dir.x + dir.z * dir.z)
    IN  IF horizontalDist < HORIZONTAL_EPSILON
        THEN [yaw |-> headYaw,
              pitch |-> IF dir.y > 0 THEN MAX_PITCH ELSE MIN_PITCH]
        ELSE [yaw |-> Atan2(dir.x, dir.z),
              pitch |-> -Atan2(dir.y, horizontalDist)]

----------------------------------------------------------------------------
(* DaemonInterface: the HTTP client.  What internetModule.fetch does with   *)
(* a request is an input: it throws, resolves to no response, or resolves   *)
(* to a response with a status and a body.                                  *)

Statuses == {200, 201, 204, 400, 404, 500}

\* a response body: malformed, or JSON that carries a uuid
Bodies == [malformed : BOOLEAN, uuid : {1, 2}]

Fetches ==
    {[kind |-> "throws"], [kind |-> "none"]}
      \cup [kind : {"response"}, status : Statuses, body : Bodies]

null == [kind |-> "null"]

undefined == [kind |-> "undefined"]

NoCall == [phase |-> "idle"]

\* the outcome of an async method: its promise is fulfilled or rejected
Returned(v) == [threw |-> FALSE, value |-> v]

Thrown(e) == [threw |-> TRUE, value |-> e]

\* fetchRequest: the response, or null when the fetch threw
fetchRequest(f) ==
    IF f.kind = "throws" THEN null
    ELSE IF f.kind = "none" THEN null
    ELSE f

\* response.json()
json(response) ==
    IF response.body.malformed THEN Thrown("SyntaxError")
    ELSE Returned(response.body)

\* checkConnection that takes any response for a healthy daemon
checkConnection_anyResponse(f) ==
    LET response == fetchRequest(f)
    IN  Returned(response # null)

checkConnection(f) ==
    LET response == fetchRequest(f)
    IN  Returned(response # null /\ response.status = 200)

listRecordedMoves(f) ==
    LET response == fetchRequest(f)
    IN  IF response = null \/ response.status # 200 THEN Thrown("HTTP")
        ELSE json(response)

playRecordedMove(f) ==
    LET response == fetchRequest(f)
    IN  IF response = null \/ response.status # 200 THEN Thrown("HTTP")
        ELSE LET data == json(response)
             IN  IF data.threw THEN data ELSE Returned(data.value.uuid)

stopMove(f) ==
    LET response == fetchRequest(f)
    IN  IF response = null \/ response.status # 200 THEN Thrown("HTTP")
        ELSE Returned(undefined)

getRunningMoves(f) ==
    LET response == fetchRequest(f)
    IN  IF response = null \/ response.status # 200 THEN Thrown("HTTP")
        ELSE json(response)

goto(f) ==
    LET response == fetchRequest(f)
    IN  IF response = null \/ response.status # 200 THEN Thrown("HTTP")
        ELSE LET data == json(response)
             IN  IF data.threw THEN data ELSE Returned(data.value.uuid)

setTarget(f) ==
    LET response == fetchRequest(f)
    IN  IF response = null \/ response.status # 200 THEN Thrown("HTTP")
        ELSE Returned(undefined)

Operations == {"checkConnection", "listRecordedMoves", "playRecordedMove",
               "stopMove", "getRunningMoves", "goto", "setTarget"}

\* the outcome of operation op when the fetch does f
Invoke(op, f) ==
    CASE op = "checkConnection" -> checkConnection(f)
      [] op = "listRecordedMoves" -> listRecordedMoves(f)
      [] op = "playRecordedMove" -> playRecordedMove(f)
      [] op = "stopMove" -> stopMove(f)
      [] op = "getRunningMoves" -> getRunningMoves(f)
      [] op = "goto" -> goto(f)
      [] op = "setTarget" -> setTarget(f)

----------------------------------------------------------------------------
(* The look-at pose synthesizer *)

ResetTracking(time) ==
    [headYaw |-> 0, headPitch |-> 0, headRoll |-> 0, bodyYaw |-> 0,
     leftAntenna |-> 0, rightAntenna |-> 0, trackingStartTime |-> time,
     motionIntensity |-> 0, lastHeadYaw |-> 0, lastHeadPitch |-> 0]

NoPose == [roll |-> 0, pitch |-> 0, yaw |-> 0, bodyYaw |-> 0,
           rightAntenna |-> 0, leftAntenna |-> 0]

\* yawStep with a gain above 1 (1.5 for 0.06)
yawStep_overshoot(tr, desired) ==
    dampenChange(Scale(desired.yaw - tr.headYaw, 1500, 1000),
                 MAX_YAW_CHANGE_PER_FRAME)

\* yawStep without the cap on the step
yawStep_uncapped(tr, desired) ==
    Scale(desired.yaw - tr.headYaw, HEAD_YAW_SMOOTHING, 1000)

\* head smoothing: the step of headYaw in one update
yawStep(tr, desired) ==
    dampenChange(Scale(desired.yaw - tr.headYaw, HEAD_YAW_SMOOTHING, 1000),
                 MAX_YAW_CHANGE_PER_FRAME)

\* head smoothing: the step of headPitch in one update
pitchStep(tr, desired) ==
    dampenChange(Scale(desired.pitch - tr.headPitch, HEAD_PITCH_SMOOTHING, 1000),
                 MAX_PITCH_CHANGE_PER_FRAME)

\* bodyFollow with the catch-up gain of the progressive follow (x2, not x8)
bodyFollow_slowCatchUp(bodyYaw, headYaw) ==
    LET relativeYaw == headYaw - bodyYaw
        followStrength == IF 2 * Abs(relativeYaw) > MAX_HEAD_YAW
                          THEN BODY_SMOOTHING * 2 ELSE BODY_SMOOTHING
    IN  IF Abs(relativeYaw) > MAX_HEAD_YAW
        THEN LET excess == Abs(relativeYaw) - MAX_HEAD_YAW
             IN  bodyYaw + dampenChange(
                     Sign(relativeYaw) * Scale(excess, BODY_SMOOTHING * 2, 1000),
                     MAX_YAW_CHANGE_PER_FRAME)
        ELSE bodyYaw + Scale(relativeYaw, followStrength, 1000)

\* bodyFollow with half the catch-up gain (x4, not x8)
bodyFollow_halfGain(bodyYaw, headYaw) ==
    LET relativeYaw == headYaw - bodyYaw
        followStrength == IF 2 * Abs(relativeYaw) > MAX_HEAD_YAW
                          THEN BODY_SMOOTHING * 2 ELSE BODY_SMOOTHING
    IN  IF Abs(relativeYaw) > MAX_HEAD_YAW
        THEN LET excess == Abs(relativeYaw) - MAX_HEAD_YAW
             IN  bodyYaw + dampenChange(
                     Sign(relativeYaw) * Scale(excess, BODY_SMOOTHING * 4, 1000),
                     MAX_YAW_CHANGE_PER_FRAME)
        ELSE bodyYaw + Scale(relativeYaw, followStrength, 1000)

\* bodyFollow without the urgent catch-up: over the limit the body stays put
bodyFollow_noCatchUp(bodyYaw, headYaw) ==
    LET relativeYaw == headYaw - bodyYaw
        followStrength == IF 2 * Abs(relativeYaw) > MAX_HEAD_YAW
                          THEN BODY_SMOOTHING * 2 ELSE BODY_SMOOTHING
    IN  IF Abs(relativeYaw) > MAX_HEAD_YAW
        THEN bodyYaw
        ELSE bodyYaw + Scale(relativeYaw, followStrength, 1000)

\* body follow: bodyYaw after following a head at headYaw (before its clamp)
bodyFollow(bodyYaw, headYaw) ==
    LET relativeYaw == headYaw - bodyYaw
        followStrength == IF 2 * Abs(relativeYaw) > MAX_HEAD_YAW
                          THEN BODY_SMOOTHING * 2 ELSE BODY_SMOOTHING
    IN  IF Abs(relativeYaw) > MAX_HEAD_YAW
        THEN LET excess == Abs(relativeYaw) - MAX_HEAD_YAW
             IN  bodyYaw + dampenChange(
                     Sign(relativeYaw) * Scale(excess, BODY_SMOOTHING * 8, 1000),
                     MAX_YAW_CHANGE_PER_FRAME)
        ELSE bodyYaw + Scale(relativeYaw, followStrength, 1000)

\* antenna smoothing: the step of one antenna in one update
antennaStep(antenna, desiredAntenna) ==
    dampenChange(Scale(desiredAntenna - antenna, ANTENNA_SMOOTHING, 1000),
                 MAX_ANTENNA_CHANGE_PER_FRAME)

\* targetPose without the clamp of the pitch after the wobble is added
targetPose_unclampedPitch(tr, pitchWobble, yawWobble) ==
    [roll |-> clamp(tr.headRoll, -MAX_ROLL, MAX_ROLL),
     pitch |-> tr.headPitch + pitchWobble,
     yaw |-> tr.headYaw + yawWobble,
     bodyYaw |-> tr.bodyYaw,
     rightAntenna |-> tr.rightAntenna,
     leftAntenna |-> tr.leftAntenna]

\* sendTargetPose: the command handed to daemon.setTarget
targetPose(tr, pitchWobble, yawWobble) ==
    [roll |-> clamp(tr.headRoll, -MAX_ROLL, MAX_ROLL),
     pitch |-> clamp(tr.headPitch + pitchWobble, MIN_PITCH, MAX_PITCH),
     yaw |-> tr.headYaw + yawWobble,
     bodyYaw |-> tr.bodyYaw,
     rightAntenna |-> tr.rightAntenna,
     leftAntenna |-> tr.leftAntenna]

\* the body of updateLookAtTarget after its guards: the next tracking state
nextTracking(tr, dir, time) ==
    LET t == time - tr.trackingStartTime
        desired == computeDesiredAngles(tr.headYaw, dir)
        headYaw1 == tr.headYaw + yawStep(tr, desired)
        headPitch1 == tr.headPitch + pitchStep(tr, desired)
        dy == headYaw1 - tr.lastHeadYaw
        dp == headPitch1 - tr.lastHeadPitch
        headVelocity == Sqrt(dy * dy + dp * dp)
        targetIntensity ==
            clamp((headVelocity * 10000) \div FULL_INTENSITY_VELOCITY, 0, 10000)
        motionIntensity1 ==
            tr.motionIntensity
              + Scale(targetIntensity - tr.motionIntensity,
                      MOTION_INTENSITY_SMOOTHING, 1000)
        rollWobble == computeWobble(t, ROLL_WOBBLE_AMPLITUDE, 350, 300000)
        headPitch2 == clamp(headPitch1, MIN_PITCH, MAX_PITCH)
        bodyYaw1 == clamp(bodyFollow(tr.bodyYaw, headYaw1),
                          -MAX_BODY_YAW, MAX_BODY_YAW)
        maxTotalYaw == MAX_BODY_YAW + MAX_HEAD_YAW
        headYaw2 == clamp(headYaw1, -maxTotalYaw, maxTotalYaw)
        antennaAmplitude ==
            ANTENNA_BASE_AMPLITUDE
              + Scale(motionIntensity1, ANTENNA_MOTION_AMPLITUDE, 10000)
        leftAntennaWobble == computeWobble(t, antennaAmplitude, 800, 50000)
        rightAntennaWobble == computeWobble(t, antennaAmplitude, 600, 250000)
        desiredLeftAntenna ==
            leftAntennaWobble + Scale(headYaw2, ANTENNA_YAW_COUPLING, 1000)
        desiredRightAntenna ==
            rightAntennaWobble - Scale(headYaw2, ANTENNA_YAW_COUPLING, 1000)
        leftAntenna1 == tr.leftAntenna + antennaStep(tr.leftAntenna, desiredLeftAntenna)
        rightAntenna1 == tr.rightAntenna + antennaStep(tr.rightAntenna, desiredRightAntenna)
    IN  [headYaw |-> headYaw2,
         headPitch |-> headPitch2,
         headRoll |-> rollWobble,
         bodyYaw |-> bodyYaw1,
         leftAntenna |-> clamp(leftAntenna1, -MAX_ANTENNA, MAX_ANTENNA),
         rightAntenna |-> clamp(rightAntenna1, -MAX_ANTENNA, MAX_ANTENNA),
         trackingStartTime |-> tr.trackingStartTime,
         motionIntensity |-> motionIntensity1,
         lastHeadYaw |-> headYaw1,
         lastHeadPitch |-> headPitch1]

Emit(s, op, arg) == [s EXCEPT !.out = Append(@, [op |-> op, arg |-> arg])]

\* updateLookAtTarget (roundButton and controlledEntity are bound)
updateLookAtTarget(s) ==
    IF ~s.daemonInterface THEN s
    ELSE LET t == s.now - s.track.trackingStartTime
             tr == nextTracking(s.track, s.target, s.now)
             pitchWobble == computeWobble(t, PITCH_WOBBLE_AMPLITUDE, 1000, 0)
             yawWobble == computeWobble(t, YAW_WOBBLE_AMPLITUDE, 700, 150000)
         IN  Emit([s EXCEPT !.prev = [track |-> s.track, target |-> s.target,
                                     held |-> s.prev.target = s.target],
                            !.track = tr,
                            !.sentPose = targetPose(tr, pitchWobble, yawWobble),
                            !.pendingSetTarget = @ + 1],
                  "setTarget", 0)

----------------------------------------------------------------------------
(* The controller.  A handler is an operator from the controller's fields   *)
(* (a record s) to the fields after it has run up to its next await; the    *)
(* promise continuations it makes ready run in the same step, after it.     *)

\* stopLookAtTracking
stopLookAtTracking(s) ==
    IF s.lookAtUpdateEvent
    THEN Emit([s EXCEPT !.lookAtUpdateEvent = FALSE], "removeLookAtEvent", 0)
    ELSE s

\* startLookAtTracking
startLookAtTracking(s) ==
    IF s.lookAtUpdateEvent THEN s
    ELSE Emit([s EXCEPT !.track = ResetTracking(s.now),
                        !.lookAtUpdateEvent = TRUE],
              "createLookAtEvent", 0)

\* stopAttentive2Loop (daemon.stopMove is fire-and-forget; the daemon is
\* taken to act on it at once); the completion checks in flight are marked
stopAttentive2Loop(s) ==
    LET s1 == [s EXCEPT !.isAttentive2Looping = FALSE,
                        !.pendingQuery = {[q EXCEPT !.stopped = TRUE] : q \in @}]
        s2 == IF s1.attentive2MoveUuid # 0 /\ s1.daemonInterface
              THEN Emit([s1 EXCEPT !.running = @ \ {s1.attentive2MoveUuid},
                                   !.stopRequested = @ \cup {s1.attentive2MoveUuid}],
                        "stopMove", s1.attentive2MoveUuid)
              ELSE s1
        s3 == [s2 EXCEPT !.attentive2MoveUuid = 0]
    IN  IF s3.idleUpdateEvent /\ s3.currentState # Idle
        THEN Emit([s3 EXCEPT !.idleUpdateEvent = FALSE], "removeIdleEvent", 0)
        ELSE s3

\* playAttentive2Loop up to its await of daemon.playRecordedMove
playAttentive2Loop(s) ==
    IF ~s.daemonInterface THEN s
    ELSE IF ~s.isAttentive2Looping THEN s
    ELSE Emit([s EXCEPT !.pendingPlay = @ + 1, !.lastLaunchTime = s.now],
              "playRecordedMove", 0)

\* gotoNeutralPosition up to its await of daemon.goto
gotoNeutralPosition(s) ==
    Emit([s EXCEPT !.pendingGoto = @ + 1], "goto", 0)

\* startAttentive2Loop without the check of daemonInterface
startAttentive2Loop_noDaemonCheck(s) ==
    IF s.isAttentive2Looping THEN s
    ELSE gotoNeutralPosition(
             Emit([s EXCEPT !.isAttentive2Looping = TRUE,
                            !.lastMoveCheckTime = s.now],
                  "startAttentive2Loop", 0))

\* startAttentive2Loop without the check of isAttentive2Looping
startAttentive2Loop_noLoopingGuard(s) ==
    IF ~s.daemonInterface THEN s
    ELSE gotoNeutralPosition(
             Emit([s EXCEPT !.isAttentive2Looping = TRUE,
                            !.lastMoveCheckTime = s.now],
                  "startAttentive2Loop", 0))

\* startAttentive2Loop that does not await gotoNeutralPosition
startAttentive2Loop_noAwait(s) ==
    IF ~s.daemonInterface THEN s
    ELSE IF s.isAttentive2Looping THEN s
    ELSE playAttentive2Loop(gotoNeutralPosition(
             Emit([s EXCEPT !.isAttentive2Looping = TRUE,
                            !.lastMoveCheckTime = s.now],
                  "startAttentive2Loop", 0)))

\* startAttentive2Loop up to its await of gotoNeutralPosition
startAttentive2Loop(s) ==
    IF ~s.daemonInterface THEN s
    ELSE IF s.isAttentive2Looping THEN s
    ELSE gotoNeutralPosition(
             Emit([s EXCEPT !.isAttentive2Looping = TRUE,
                            !.lastMoveCheckTime = s.now],
                  "startAttentive2Loop", 0))

\* afterGoto when an error of the goto ends the start of the loop (out[1]
\* holds what the goto returned)
afterGoto_fatal(s) ==
    LET s1 == [s EXCEPT !.pendingGoto = @ - 1]
        s2 == IF ~s1.idleUpdateEvent
              THEN Emit([s1 EXCEPT !.idleUpdateEvent = TRUE], "createIdleEvent", 0)
              ELSE s1
    IN  IF s.out[1].arg = 0
        THEN [s1 EXCEPT !.isAttentive2Looping = FALSE]
        ELSE playAttentive2Loop(s2)

\* startAttentive2Loop from the return of gotoNeutralPosition on; the goto
\* having failed or not makes no difference
afterGoto(s) ==
    LET s1 == [s EXCEPT !.pendingGoto = @ - 1]
        s2 == IF ~s1.idleUpdateEvent
              THEN Emit([s1 EXCEPT !.idleUpdateEvent = TRUE], "createIdleEvent", 0)
              ELSE s1
    IN  playAttentive2Loop(s2)

\* playAttentive2Loop from the return of daemon.playRecordedMove on
afterPlay(s, ok, uuid) ==
    LET s1 == [s EXCEPT !.pendingPlay = @ - 1,
                        !.lastLaunchTime = IF s.pendingPlay = 1 THEN -1 ELSE @]
    IN  IF ok
        THEN [s1 EXCEPT !.attentive2MoveUuid = uuid,
                        !.running = @ \cup {uuid},
                        !.lastMoveCheckTime = s.now,
                        !.moveStartTime = s.now]
        ELSE [s1 EXCEPT !.moveStartTime = s.now]

\* checkMoveCompletion up to its await of daemon.getRunningMoves
checkMoveCompletion(s) ==
    IF ~s.isAttentive2Looping \/ s.attentive2MoveUuid = 0 \/ ~s.daemonInterface
    THEN s
    ELSE IF s.now - s.lastMoveCheckTime < moveCheckInterval THEN s
    ELSE Emit([s EXCEPT !.lastMoveCheckTime = s.now,
                        !.pendingQuery = @ \cup
                            {[currentTime |-> s.now, served |-> FALSE,
                              runningMoves |-> {}, stopped |-> FALSE]}],
              "getRunningMoves", 0)

\* afterQuery that relaunches whatever the answer holds
afterQuery_ignoreAnswer(s, q, ok) ==
    LET s1 == [s EXCEPT !.pendingQuery = @ \ {q}]
    IN  IF s1.isAttentive2Looping THEN playAttentive2Loop(s1) ELSE s1

\* checkMoveCompletion from the return of daemon.getRunningMoves on
afterQuery(s, q, ok) ==
    LET s1 == [s EXCEPT !.pendingQuery = @ \ {q}]
        isStillRunning == s1.attentive2MoveUuid \in q.runningMoves
    IN  IF ok
        THEN IF ~isStillRunning /\ s1.isAttentive2Looping
             THEN playAttentive2Loop(s1) ELSE s1
        ELSE IF q.currentTime - s1.moveStartTime >= FALLBACK_DURATION
             THEN IF s1.isAttentive2Looping THEN playAttentive2Loop(s1) ELSE s1
             ELSE s1

\* what follows the await of animateLookAtEntity(show) in handleStateLookAtTarget
\* and handleStateIdle, after the .finally of the tween's promise
afterAnimate(s, show) ==
    LET s1 == Emit([s EXCEPT !.currentAnimation = 0],
                   "animationResolved", IF show THEN 1 ELSE 0)
    IN  IF show THEN startLookAtTracking(s1) ELSE startAttentive2Loop(s1)

\* animateLookAtEntity(show) up to its await, the cancelled callback of the
\* tween it cancels included; cancelled is the show flag of that tween
\* (a set, empty when no tween is cancelled)
cancelledBy(s) == {tw \in s.tweens : tw.id = s.currentAnimation}

animateLookAtEntity(s, show) ==
    LET old == cancelledBy(s)
        s1 == IF s.currentAnimation # 0
              THEN Emit([s EXCEPT !.tweens = @ \ old,
                                  !.entityEnabled =
                                      IF \E tw \in old : ~tw.show THEN FALSE ELSE @,
                                  !.currentAnimation = 0],
                        "cancelAnimation", s.currentAnimation)
              ELSE s
        s2 == IF show THEN [s1 EXCEPT !.entityEnabled = TRUE] ELSE s1
        id == s2.animCount + 1
    IN  Emit([s2 EXCEPT !.animCount = id,
                        !.currentAnimation = id,
                        !.tweens = @ \cup
                            {[id |-> id, show |-> show, start |-> s.now,
                              targetScale |-> IF show THEN VISIBLE_SCALE ELSE 0]}],
             IF show THEN "animateShow" ELSE "animateHide", id)

\* handleState in which the transition of a cancelled tween does not resume
handleState_noContinuation(s, show) == animateLookAtEntity(s, show)

\* handleStateLookAtTarget / handleStateIdle: animateLookAtEntity, then the
\* continuation of the transition whose tween it cancelled
handleState(s, show) ==
    LET old == cancelledBy(s)
        s1 == animateLookAtEntity(s, show)
    IN  IF old = {} THEN s1
        ELSE afterAnimate(s1, (CHOOSE tw \in old : TRUE).show)

\* setState without the early return when the state is already newState
setState_noEarlyReturn(s, newState) ==
    LET s1 == [s EXCEPT !.currentState = newState]
    IN  IF newState = LookAtTarget
        THEN handleState(stopAttentive2Loop(s1), TRUE)
        ELSE IF newState = Idle
        THEN handleState(stopLookAtTracking(s1), FALSE)
        ELSE s1

\* setState
setState(s, newState) ==
    IF s.currentState = newState THEN s
    ELSE LET s1 == [s EXCEPT !.currentState = newState]
         IN  IF newState = LookAtTarget
             THEN handleState(stopAttentive2Loop(s1), TRUE)
             ELSE IF newState = Idle
             THEN handleState(stopLookAtTracking(s1), FALSE)
             ELSE s1

\* the ended callback of a tween that does not resolve the tween's promise
tweenEnded_noResolve(s, tw) ==
    [s EXCEPT !.tweens = @ \ {tw},
              !.entityEnabled = IF ~tw.show THEN FALSE ELSE @]

\* the ended callback of a tween, and what its promise's resolution starts
tweenEnded(s, tw) ==
    LET s1 == [s EXCEPT !.tweens = @ \ {tw},
                        !.entityEnabled = IF ~tw.show THEN FALSE ELSE @]
    IN  afterAnimate(s1, tw.show)

\* lookAtUpdate without the check of currentState in the callback
lookAtUpdate_noStateCheck(s) ==
    IF s.lookAtUpdateEvent THEN updateLookAtTarget(s) ELSE s

\* the catch handler of sendTargetPose that sends the command again
afterSetTarget_retry(s, ok) ==
    LET s1 == [s EXCEPT !.pendingSetTarget = @ - 1]
    IN  IF ok THEN s1
        ELSE Emit([s1 EXCEPT !.pendingSetTarget = @ + 1], "setTarget", 0)

\* the promise of daemon.setTarget settles: nothing is chained on success,
\* and the catch handler is empty
afterSetTarget(s, ok) == [s EXCEPT !.pendingSetTarget = @ - 1]

\* the two UpdateEvent callbacks of one frame
lookAtUpdate(s) ==
    IF s.lookAtUpdateEvent /\ s.currentState = LookAtTarget
    THEN updateLookAtTarget(s) ELSE s

idleUpdate(s) ==
    IF s.idleUpdateEvent /\ s.currentState = Idle /\ s.isAttentive2Looping
    THEN checkMoveCompletion(s) ELSE s

----------------------------------------------------------------------------
(* State, initial state and steps *)

\* target positions relative to the look-at centre: straight ahead, behind
\* to the left, behind to the right, straight above
Ahead == [x |-> 0, y |-> 0, z |-> 10000]

BehindLeft == [x |-> -1000, y |-> -12000, z |-> -10000]

BehindRight == [x |-> 1000, y |-> 12000, z |-> -10000]

Above == [x |-> 0, y |-> 5000, z |-> 0]

\* straight below, and at the look-at centre itself
Below == [x |-> 0, y |-> -5000, z |-> 0]

Centre == [x |-> 0, y |-> 0, z |-> 0]

Targets == {Ahead, BehindLeft, BehindRight, Above, Below, Centre}

\* the controller's fields at the start of a handler run
Self ==
    [currentState |-> currentState, daemonInterface |-> daemonInterface,
     currentAnimation |-> currentAnimation,
     attentive2MoveUuid |-> attentive2MoveUuid,
     isAttentive2Looping |-> isAttentive2Looping,
     lookAtUpdateEvent |-> lookAtUpdateEvent,
     idleUpdateEvent |-> idleUpdateEvent,
     lastMoveCheckTime |-> lastMoveCheckTime, moveStartTime |-> moveStartTime,
     track |-> track, entityEnabled |-> entityEnabled, tweens |-> tweens,
     animCount |-> animCount, pendingGoto |-> pendingGoto,
     pendingPlay |-> pendingPlay, pendingQuery |-> pendingQuery,
     running |-> running, stopRequested |-> stopRequested, now |-> now,
     target |-> target, prev |-> prev, sentPose |-> sentPose,
     pendingSetTarget |-> pendingSetTarget,
     lastLaunchTime |-> lastLaunchTime, out |-> <<>>]

\* the fields a handler run leaves behind
Commit(s) ==
    /\ currentState' = s.currentState
    /\ currentAnimation' = s.currentAnimation
    /\ attentive2MoveUuid' = s.attentive2MoveUuid
    /\ isAttentive2Looping' = s.isAttentive2Looping
    /\ lookAtUpdateEvent' = s.lookAtUpdateEvent
    /\ idleUpdateEvent' = s.idleUpdateEvent
    /\ lastMoveCheckTime' = s.lastMoveCheckTime
    /\ moveStartTime' = s.moveStartTime
    /\ track' = s.track
    /\ entityEnabled' = s.entityEnabled
    /\ tweens' = s.tweens
    /\ animCount' = s.animCount
    /\ pendingGoto' = s.pendingGoto
    /\ pendingPlay' = s.pendingPlay
    /\ pendingQuery' = s.pendingQuery
    /\ running' = s.running
    /\ stopRequested' = s.stopRequested
    /\ now' = s.now
    /\ prev' = s.prev
    /\ sentPose' = s.sentPose
    /\ pendingSetTarget' = s.pendingSetTarget
    /\ lastLaunchTime' = s.lastLaunchTime
    /\ out' = s.out
    /\ UNCHANGED <<daemonInterface, target, http>>

Init ==
    /\ currentState = Uninitialized
    /\ daemonInterface \in BOOLEAN
    /\ currentAnimation = 0
    /\ attentive2MoveUuid = 0
    /\ isAttentive2Looping = FALSE
    /\ lookAtUpdateEvent = FALSE
    /\ idleUpdateEvent = FALSE
    /\ lastMoveCheckTime = 0
    /\ moveStartTime = 0
    /\ track = ResetTracking(0)
    /\ entityEnabled = TRUE
    /\ tweens = {}
    /\ animCount = 0
    /\ pendingGoto = 0
    /\ pendingPlay = 0
    /\ pendingQuery = {}
    /\ running = {}
    /\ nextUuid = 1
    /\ stopRequested = {}
    /\ now = 0
    /\ target = BehindRight
    /\ frames = 0
    /\ toggles = 0
    /\ jumps = 0
    /\ prev = [track |-> ResetTracking(0), target |-> BehindRight, held |-> TRUE]
    /\ sentPose = NoPose
    /\ pendingSetTarget = 0
    /\ lastLaunchTime = -1
    /\ http = NoCall
    /\ out = <<>>

\* onAwake: the button is bound; the initial state is set to Idle
OnAwake ==
    /\ currentState = Uninitialized
    /\ Commit(setState(Self, Idle))
    /\ UNCHANGED <<nextUuid, frames, toggles, jumps>>

\* the button handler with value 0 mapped to Uninitialized
Toggle_offToUninitialized ==
    /\ currentState # Uninitialized
    /\ toggles < MaxToggles
    /\ \E value \in {0, 1} :
          LET newState == IF value = 1 THEN LookAtTarget ELSE Uninitialized
          IN  /\ Commit(setState(Emit(Self, "onValueChange", value), newState))
              /\ toggles' = IF newState = currentState THEN toggles ELSE toggles + 1
    /\ UNCHANGED <<nextUuid, frames, jumps>>

\* roundButton.onValueChange fires with value (1 = on, 0 = off)
Toggle ==
    /\ currentState # Uninitialized
    /\ toggles < MaxToggles
    /\ \E value \in {0, 1} :
          LET newState == IF value = 1 THEN LookAtTarget ELSE Idle
          IN  /\ Commit(setState(Emit(Self, "onValueChange", value), newState))
              /\ toggles' = IF newState = currentState THEN toggles ELSE toggles + 1
    /\ UNCHANGED <<nextUuid, frames, jumps>>

\* one rendered frame, dt after the last one: both UpdateEvent callbacks
Frame(dt) ==
    /\ currentState # Uninitialized
    /\ Commit(idleUpdate(lookAtUpdate([Self EXCEPT !.now = now + dt])))
    /\ frames' = frames + 1
    /\ UNCHANGED <<nextUuid, toggles, jumps>>

RenderFrame ==
    /\ frames < MaxFrames
    /\ \E dt \in FrameDurations : Frame(dt)

\* a tween reaches its duration (tweens end in the order they were started)
TweenEnds ==
    /\ \E tw \in tweens :
          /\ \A other \in tweens : other.id >= tw.id
          /\ now - tw.start >= TWEEN_DURATION
          /\ Commit(tweenEnded(Self, tw))
    /\ UNCHANGED <<nextUuid, frames, toggles, jumps>>

\* daemon.goto returns or throws
GotoReturns ==
    /\ pendingGoto > 0
    /\ \E ok \in BOOLEAN :
          Commit(afterGoto(Emit(Self, "gotoReturned", IF ok THEN 1 ELSE 0)))
    /\ UNCHANGED <<nextUuid, frames, toggles, jumps>>

\* daemon.playRecordedMove returns the uuid of the move it started, or throws
PlayReturns ==
    /\ pendingPlay > 0
    /\ \E ok \in BOOLEAN :
          /\ ok => nextUuid <= MaxMoves
          /\ Commit(afterPlay(Emit(Self, "playReturned", IF ok THEN nextUuid ELSE 0),
                              ok, nextUuid))
          /\ nextUuid' = IF ok THEN nextUuid + 1 ELSE nextUuid
    /\ UNCHANGED <<frames, toggles, jumps>>

\* the daemon answers GET /api/move/running with the moves running then
QueryServed ==
    /\ \E q \in pendingQuery :
          /\ ~q.served
          /\ pendingQuery' = (pendingQuery \ {q}) \cup
                               {[q EXCEPT !.served = TRUE, !.runningMoves = running]}
    /\ out' = <<>>
    /\ UNCHANGED <<currentState, daemonInterface, currentAnimation,
                   attentive2MoveUuid, isAttentive2Looping, lookAtUpdateEvent,
                   idleUpdateEvent, lastMoveCheckTime, moveStartTime, track,
                   entityEnabled, tweens, animCount, pendingGoto, pendingPlay,
                   running, nextUuid, stopRequested, now, target, frames,
                   toggles, jumps, prev, sentPose,
                   pendingSetTarget, lastLaunchTime, http>>

\* daemon.getRunningMoves returns the answer, or throws
QueryReturns ==
    /\ \E q \in pendingQuery, ok \in BOOLEAN :
          /\ ok => q.served
          /\ Commit(afterQuery(Emit(Self, "runningMovesReturned", IF ok THEN 1 ELSE 0),
                               q, ok))
    /\ UNCHANGED <<nextUuid, frames, toggles, jumps>>

\* a recorded move plays to its end on the robot
MoveFinishes ==
    /\ \E u \in running : running' = running \ {u}
    /\ out' = <<>>
    /\ UNCHANGED <<currentState, daemonInterface, currentAnimation,
                   attentive2MoveUuid, isAttentive2Looping, lookAtUpdateEvent,
                   idleUpdateEvent, lastMoveCheckTime, moveStartTime, track,
                   entityEnabled, tweens, animCount, pendingGoto, pendingPlay,
                   pendingQuery, nextUuid, stopRequested, now, target, frames,
                   toggles, jumps, prev, sentPose,
                   pendingSetTarget, lastLaunchTime, http>>

\* daemon.setTarget returns or throws
SetTargetReturns ==
    /\ pendingSetTarget > 0
    /\ \E ok \in BOOLEAN :
          Commit(afterSetTarget(Emit(Self, "setTargetReturned", IF ok THEN 1 ELSE 0),
                                ok))
    /\ UNCHANGED <<nextUuid, frames, toggles, jumps>>

Next ==
    \/ OnAwake
    \/ Toggle
    \/ RenderFrame
    \/ TweenEnds
    \/ GotoReturns
    \/ PlayReturns
    \/ QueryServed
    \/ QueryReturns
    \/ MoveFinishes
    \/ SetTargetReturns

Spec == Init /\ [][Next]_vars

----------------------------------------------------------------------------
(* The DaemonInterface on its own: one call of one operation, with every   *)
(* outcome of the fetch.                                                   *)

TransportInit == Init /\ daemonInterface = TRUE

\* an operation is called: the request is handed to internetModule.fetch
Request ==
    /\ http.phase = "idle"
    /\ \E op \in Operations : http' = [phase |-> "pending", op |-> op]
    /\ UNCHANGED <<currentState, daemonInterface, currentAnimation,
                   attentive2MoveUuid, isAttentive2Looping, lookAtUpdateEvent,
                   idleUpdateEvent, lastMoveCheckTime, moveStartTime, track,
                   entityEnabled, tweens, animCount, pendingGoto, pendingPlay,
                   pendingQuery, running, nextUuid, stopRequested, now, target,
                   frames, toggles, jumps, prev, sentPose, pendingSetTarget,
                   lastLaunchTime, out>>

\* the fetch settles and the operation returns or throws
Respond ==
    /\ http.phase = "pending"
    /\ \E f \in Fetches :
          http' = [phase |-> "done", op |-> http.op, fetch |-> f,
                   result |-> Invoke(http.op, f)]
    /\ UNCHANGED <<currentState, daemonInterface, currentAnimation,
                   attentive2MoveUuid, isAttentive2Looping, lookAtUpdateEvent,
                   idleUpdateEvent, lastMoveCheckTime, moveStartTime, track,
                   entityEnabled, tweens, animCount, pendingGoto, pendingPlay,
                   pendingQuery, running, nextUuid, stopRequested, now, target,
                   frames, toggles, jumps, prev, sentPose, pendingSetTarget,
                   lastLaunchTime, out>>

TransportNext == Request \/ Respond

SpecTransport == TransportInit /\ [][TransportNext]_vars

----------------------------------------------------------------------------
(* The synthesizer on its own: a LookAtTarget session that has just started *)
(* (the idle loop ran and was stopped, the show tween has ended), then one  *)
(* update per regular frame while the target is moved around.               *)

SessionStart == 50 + 50

SynthInit ==
    /\ currentState = LookAtTarget
    /\ daemonInterface = TRUE
    /\ currentAnimation = 0
    /\ attentive2MoveUuid = 0
    /\ isAttentive2Looping = FALSE
    /\ lookAtUpdateEvent = TRUE
    /\ idleUpdateEvent = FALSE
    /\ lastMoveCheckTime = 50
    /\ moveStartTime = 50
    /\ track = ResetTracking(SessionStart)
    /\ entityEnabled = TRUE
    /\ tweens = {}
    /\ animCount = 2
    /\ pendingGoto = 0
    /\ pendingPlay = 0
    /\ pendingQuery = {}
    /\ running = {}
    /\ nextUuid = 1
    /\ stopRequested = {}
    /\ now = SessionStart
    /\ target = BehindRight
    /\ frames = 2
    /\ toggles = 1
    /\ jumps = 0
    /\ prev = [track |-> ResetTracking(0), target |-> BehindRight, held |-> TRUE]
    /\ sentPose = NoPose
    /\ pendingSetTarget = 0
    /\ lastLaunchTime = -1
    /\ http = NoCall
    /\ out = <<[op |-> "animationResolved", arg |-> 1],
               [op |-> "createLookAtEvent", arg |-> 0]>>

\* one regular frame of the session
SynthTick ==
    /\ now - track.trackingStartTime < MaxTicks
    /\ Frame(1)

\* the user moves the controlled entity
MoveTarget ==
    /\ jumps < MaxJumps
    /\ \E p \in Targets \ {target} : target' = p
    /\ jumps' = jumps + 1
    /\ out' = <<>>
    /\ UNCHANGED <<currentState, daemonInterface, currentAnimation,
                   attentive2MoveUuid, isAttentive2Looping, lookAtUpdateEvent,
                   idleUpdateEvent, lastMoveCheckTime, moveStartTime, track,
                   entityEnabled, tweens, animCount, pendingGoto, pendingPlay,
                   pendingQuery, running, nextUuid, stopRequested, now, frames,
                   toggles, prev, sentPose,
                   pendingSetTarget, lastLaunchTime, http>>

SynthNext == SynthTick \/ MoveTarget

SpecSynth == SynthInit /\ [][SynthNext]_vars

----------------------------------------------------------------------------
(* The button toggled during a session: the controller has entered Idle,   *)
(* its hide tween has ended after a stalled frame and the idle loop has    *)
(* sent its goto; the button was then switched on, so that the show tween  *)
(* has just been started.  Frames and button events are counted from here. *)

TogglingInit ==
    /\ currentState = LookAtTarget
    /\ daemonInterface = TRUE
    /\ currentAnimation = 2
    /\ attentive2MoveUuid = 0
    /\ isAttentive2Looping = FALSE
    /\ lookAtUpdateEvent = FALSE
    /\ idleUpdateEvent = FALSE
    /\ lastMoveCheckTime = 50
    /\ moveStartTime = 0
    /\ track = ResetTracking(0)
    /\ entityEnabled = TRUE
    /\ tweens = {[id |-> 2, show |-> TRUE, start |-> 50,
                  targetScale |-> VISIBLE_SCALE]}
    /\ animCount = 2
    /\ pendingGoto = 1
    /\ pendingPlay = 0
    /\ pendingQuery = {}
    /\ running = {}
    /\ nextUuid = 1
    /\ stopRequested = {}
    /\ now = 50
    /\ target = BehindRight
    /\ frames = 0
    /\ toggles = 0
    /\ jumps = 0
    /\ prev = [track |-> ResetTracking(0), target |-> BehindRight, held |-> TRUE]
    /\ sentPose = NoPose
    /\ pendingSetTarget = 0
    /\ lastLaunchTime = -1
    /\ http = NoCall
    /\ out = <<[op |-> "onValueChange", arg |-> 1],
               [op |-> "animateShow", arg |-> 2]>>

TogglingNext ==
    \/ Toggle
    \/ RenderFrame
    \/ TweenEnds
    \/ GotoReturns
    \/ PlayReturns
    \/ QueryServed
    \/ QueryReturns
    \/ MoveFinishes
    \/ SetTargetReturns

SpecToggling == TogglingInit /\ [][TogglingNext]_vars

----------------------------------------------------------------------------
(* The synthesizer with the target held where it is: a LookAtTarget        *)
(* session that has just started, as above, then one update per regular    *)
(* frame.  Every frame is rendered sooner or later.                        *)

\* to the right at the height of the look-at centre (desired yaw PI / 2),
\* and ahead to the right, a little below it (desired yaw and pitch within
\* the limits, neither of them 0)
Right == [x |-> 10000, y |-> 0, z |-> 0]

AheadRightLow == [x |-> 5000, y |-> -1000, z |-> 10000]

HoldTargets == {Ahead, Right, AheadRightLow}

HoldInit ==
    /\ currentState = LookAtTarget
    /\ daemonInterface = TRUE
    /\ currentAnimation = 0
    /\ attentive2MoveUuid = 0
    /\ isAttentive2Looping = FALSE
    /\ lookAtUpdateEvent = TRUE
    /\ idleUpdateEvent = FALSE
    /\ lastMoveCheckTime = 50
    /\ moveStartTime = 50
    /\ track = ResetTracking(SessionStart)
    /\ entityEnabled = TRUE
    /\ tweens = {}
    /\ animCount = 2
    /\ pendingGoto = 0
    /\ pendingPlay = 0
    /\ pendingQuery = {}
    /\ running = {}
    /\ nextUuid = 1
    /\ stopRequested = {}
    /\ now = SessionStart
    /\ target \in HoldTargets
    /\ frames = 2
    /\ toggles = 1
    /\ jumps = 0
    /\ prev = [track |-> ResetTracking(0), target |-> target, held |-> TRUE]
    /\ sentPose = NoPose
    /\ pendingSetTarget = 0
    /\ lastLaunchTime = -1
    /\ http = NoCall
    /\ out = <<[op |-> "animationResolved", arg |-> 1],
               [op |-> "createLookAtEvent", arg |-> 0]>>

\* one regular frame of the session
HoldTick ==
    /\ now - track.trackingStartTime < MaxHoldTicks
    /\ Frame(1)

\* the clock of the session advances by one regular frame: what every
\* HoldTick step does, and possible exactly when HoldTick is
FrameElapses ==
    /\ now - track.trackingStartTime < MaxHoldTicks
    /\ now' = now + 1

SpecHold == HoldInit /\ [][HoldTick]_vars /\ WF_now(FrameElapses)

\* a session whose target stays behind the robot on its right, where the
\* head outruns the body: one update per regular frame
SpecFollow == SynthInit /\ [][HoldTick]_vars /\ WF_now(FrameElapses)

----------------------------------------------------------------------------
(* The controller with a daemon interface bound and playback requests that  *)
(* succeed, under fairness: frames go on being rendered while a tween has   *)
(* not reached its duration, and every tween and every call to the daemon   *)
(* completes.                                                               *)

MaxLaunches == 6

SettleInit == Init /\ daemonInterface = TRUE

\* a tween that has not reached its duration
TweenRuns == \E tw \in tweens : now - tw.start < TWEEN_DURATION

\* one rendered frame, not shorter than a tween; frames are rendered for as
\* long as a tween runs
SettleFrame ==
    /\ frames < MaxFrames \/ TweenRuns
    /\ \E dt \in FrameDurations : dt >= TWEEN_DURATION /\ Frame(dt)

\* the clock advances by a frame while a tween runs: what every SettleFrame
\* step does, and possible whenever a tween runs
TweenFrameElapses ==
    /\ currentState # Uninitialized
    /\ TweenRuns
    /\ \E dt \in FrameDurations : dt >= TWEEN_DURATION /\ now' = now + dt

\* daemon.playRecordedMove returns the uuid of the move it started
PlaySucceeds ==
    /\ pendingPlay > 0
    /\ nextUuid <= MaxLaunches
    /\ Commit(afterPlay(Emit(Self, "playReturned", nextUuid), TRUE, nextUuid))
    /\ nextUuid' = nextUuid + 1
    /\ UNCHANGED <<frames, toggles, jumps>>

SettleNext ==
    \/ OnAwake
    \/ Toggle
    \/ SettleFrame
    \/ TweenEnds
    \/ GotoReturns
    \/ PlaySucceeds
    \/ QueryServed
    \/ QueryReturns
    \/ MoveFinishes
    \/ SetTargetReturns

SpecSettle ==
    /\ SettleInit
    /\ [][SettleNext]_vars
    /\ WF_vars(OnAwake)
    /\ WF_now(TweenFrameElapses)
    /\ WF_vars(TweenEnds)
    /\ WF_vars(GotoReturns)
    /\ WF_vars(PlaySucceeds)
    /\ WF_vars(QueryReturns)
    /\ WF_vars(SetTargetReturns)

\* the last step was an update of the synthesizer
Ticked == out # <<>> /\ out[Len(out)].op = "setTarget"

----------------------------------------------------------------------------
(* Properties *)

Ops == {out[i].op : i \in DOMAIN out}

\* how far the head is turned beyond MAX_HEAD_YAW relative to the body
Excess(tr) == Abs(tr.headYaw - tr.bodyYaw) - MAX_HEAD_YAW

\* C1: the idle loop is never looping while the controller is in
\* LookAtTarget and the synthesizer's per-frame update is registered.
C1_OneLoopAtATime ==
    (currentState = LookAtTarget /\ lookAtUpdateEvent) => ~isAttentive2Looping

\* C2: no goto and no playRecordedMove is sent by a handler run that ends
\* with the controller in LookAtTarget (currentState changes only at the
\* start of a run, so that is the state the command was sent in).
C2_NoStaleIdleCommand ==
    \A i \in DOMAIN out :
        out[i].op \in {"goto", "playRecordedMove"} => currentState = Idle

\* C3: with a playRecordedMove that has always failed, while the controller
\* stays in Idle (no toggle) with the idle loop started, a playback request
\* is in flight whenever the fallback duration has elapsed since the last
\* launch.
C3_IdleSelfHealing ==
    ( /\ toggles = 0
      /\ currentState = Idle
      /\ isAttentive2Looping
      /\ idleUpdateEvent
      /\ pendingGoto = 0
      /\ nextUuid = 1
      /\ now - moveStartTime >= FALLBACK_DURATION )
    => pendingPlay > 0

\* C4: a button event that asks for the state the controller is already in
\* changes nothing: no tween, no command, no field of the controller.
C4_IdempotentSetState ==
    [][ ( /\ out' # <<>>
          /\ out'[1].op = "onValueChange"
          /\ currentState = (IF out'[1].arg = 1 THEN LookAtTarget ELSE Idle) )
        => ( /\ Len(out') = 1
             /\ UNCHANGED <<currentState, currentAnimation, attentive2MoveUuid,
                            isAttentive2Looping, lookAtUpdateEvent,
                            idleUpdateEvent, lastMoveCheckTime, moveStartTime,
                            track, entityEnabled, tweens, animCount,
                            pendingGoto, pendingPlay, pendingQuery, running,
                            stopRequested, sentPose, pendingSetTarget>> ) ]_vars

\* C4 witness: the button has just reported "off" to a controller that was
\* already in Idle with its hide tween running.
C4_Witness ==
    /\ out = <<[op |-> "onValueChange", arg |-> 0]>>
    /\ currentState = Idle
    /\ tweens # {}

\* C5: whenever the idle loop is not looping, no task id is remembered and
\* no move the driver launched is still playing without a stop request.
C5_MoveTaskReleased ==
    ~isAttentive2Looping => (attentive2MoveUuid = 0 /\ running = {})

\* C6: across one update headYaw, headPitch and both antennas change by no
\* more than their maximum change per frame.
C6_RateLimit ==
    Ticked =>
        /\ Abs(track.headYaw - prev.track.headYaw) <= MAX_YAW_CHANGE_PER_FRAME
        /\ Abs(track.headPitch - prev.track.headPitch) <= MAX_PITCH_CHANGE_PER_FRAME
        /\ Abs(track.leftAntenna - prev.track.leftAntenna)
               <= MAX_ANTENNA_CHANGE_PER_FRAME
        /\ Abs(track.rightAntenna - prev.track.rightAntenna)
               <= MAX_ANTENNA_CHANGE_PER_FRAME

\* C6 witness: the target has just jumped to more than 180 degrees away from
\* where the head points, and the update moved the head by exactly the cap.
C6_Witness ==
    /\ Ticked
    /\ ~prev.held
    /\ Abs(computeDesiredAngles(prev.track.headYaw, prev.target).yaw
             - prev.track.headYaw) > 180000
    /\ Abs(track.headYaw - prev.track.headYaw) = MAX_YAW_CHANGE_PER_FRAME

C8_HeadRelativeLimit == Ticked => Excess(track) <= 0

\* the excess at which the body's catch-up step equals the largest head step,
\* less that step: MAX_YAW_CHANGE_PER_FRAME * (1 - 8 BODY_SMOOTHING) /
\* (8 BODY_SMOOTHING), plus the rounding of the products
MaxExcess ==
    Scale(MAX_YAW_CHANGE_PER_FRAME + 2, 1000 - 8 * BODY_SMOOTHING, 8 * BODY_SMOOTHING)

\* C8 amended: after every update |headYaw - bodyYaw| is at most
\* MAX_HEAD_YAW plus MaxExcess (6.375 degrees).
C8_HeadRelativeBound == Ticked => Excess(track) <= MaxExcess

\* C8 witness: the head is turned more than MAX_HEAD_YAW + 5 degrees
\* relative to the body.
C8_Witness == Ticked /\ Excess(track) > 5000

\* C9 as stated: with the target held, an excess over MAX_HEAD_YAW does not
\* grow from one update to the next.
C9_MonotonicRecovery ==
    (Ticked /\ prev.held /\ Excess(prev.track) > 0)
        => Excess(track) <= Excess(prev.track)

\* C9 amended: with the target held, the excess after an update is at most
\* (1 - 8 BODY_SMOOTHING) times the sum of the excess before it and the step
\* the head made in it (one unit of rounding allowed).
C9_ContractingRecovery ==
    (Ticked /\ prev.held /\ Excess(prev.track) > 0)
        => 1000 * Excess(track)
             <= (1000 - 8 * BODY_SMOOTHING)
                  * (Excess(prev.track) + Abs(track.headYaw - prev.track.headYaw))
                + 1000

\* C9 witness: the target was held, the limit was exceeded before the update
\* and the excess is larger after it.
C9_Witness ==
    /\ Ticked
    /\ prev.held
    /\ Excess(prev.track) > 0
    /\ Excess(track) > Excess(prev.track)

\* C10: a set-target command is sent only in LookAtTarget; a hide tween has
\* target scale 0; in a handler run the synthesizer's update is unregistered
\* before the hide tween is started and never after it; the idle loop is
\* started only directly after a hide tween's promise has resolved; and when
\* a hide tween ends the entity is disabled.
C10_IdleEntryOrder ==
    /\ Ticked => currentState = LookAtTarget
    /\ \A tw \in tweens : ~tw.show => tw.targetScale = 0
    /\ \A i, j \in DOMAIN out :
          (out[i].op = "animateHide" /\ out[j].op = "removeLookAtEvent") => j < i
    /\ \A i \in DOMAIN out :
          out[i].op = "animateHide" =>
              \A j \in DOMAIN out : j < i => out[j].op # "startAttentive2Loop"
    /\ \A i \in DOMAIN out :
          out[i].op = "startAttentive2Loop" =>
              i > 1 /\ out[i - 1] = [op |-> "animationResolved", arg |-> 0]
    /\ (out # <<>> /\ out[1] = [op |-> "animationResolved", arg |-> 0])
          => ~entityEnabled

\* C10 witness: the controller left a LookAtTarget session whose synthesizer
\* update had been registered (trackingStartTime was set by it), the hook is
\* gone, the hide tween has ended and the idle loop was started by that.
C10_Witness ==
    /\ currentState = Idle
    /\ track.trackingStartTime > 0
    /\ ~lookAtUpdateEvent
    /\ ~entityEnabled
    /\ Len(out) >= 2
    /\ out[1] = [op |-> "animationResolved", arg |-> 0]
    /\ out[2].op = "startAttentive2Loop"

\* C11: a start of the idle loop sends the neutral-pose goto first and
\* nothing after it until the goto has returned: in a handler run a
\* startAttentive2Loop is directly followed by its goto, which ends the run,
\* and a playRecordedMove is sent only by a run that begins with a goto
\* returning (the continuation of a start) or with the answer to a poll.
C11_GotoBeforePlay ==
    /\ \A i \in DOMAIN out :
          out[i].op = "startAttentive2Loop" =>
              /\ Len(out) = i + 1
              /\ out[i + 1].op = "goto"
    /\ \A i \in DOMAIN out :
          out[i].op = "goto" => i > 1 /\ out[i - 1].op = "startAttentive2Loop"
    /\ \A i \in DOMAIN out :
          out[i].op = "playRecordedMove" =>
              out[1].op \in {"gotoReturned", "runningMovesReturned"}

\* C11 witness: the goto of a start has returned and that start has sent its
\* playback request, while the goto of a later start is still outstanding.
C11_Witness ==
    /\ Len(out) >= 2
    /\ out[1].op = "gotoReturned"
    /\ out[Len(out)].op = "playRecordedMove"
    /\ pendingGoto > 0

\* C12: no update of the synthesizer runs while the show tween of the
\* current LookAtTarget session (the tween started last) is still running.
C12_NoTickBeforeShown ==
    Ticked => \A tw \in tweens : tw.id # animCount

\* C13: the synthesizer's UpdateEvent and the idle poll's UpdateEvent are
\* never both registered.
C13_OneRegistration == ~(lookAtUpdateEvent /\ idleUpdateEvent)

\* C14: when the target is straight above or below the look-at centre
\* (horizontalDist < 0.001) an update leaves headYaw as it was, and moves
\* headPitch by the capped fraction of its distance to MAX_PITCH when the
\* vertical delta is positive and to MIN_PITCH otherwise.
C14_Singularity ==
    (Ticked /\ prev.target.x = 0 /\ prev.target.z = 0) =>
        /\ track.headYaw = prev.track.headYaw
        /\ track.lastHeadPitch =
              prev.track.headPitch
                + dampenChange(
                      Scale((IF prev.target.y > 0 THEN MAX_PITCH ELSE MIN_PITCH)
                               - prev.track.headPitch,
                            HEAD_PITCH_SMOOTHING, 1000),
                      MAX_PITCH_CHANGE_PER_FRAME)

\* C14 witness: the head had turned away from yaw 0 when the target was put
\* straight above it; the update kept the yaw and raised the pitch.
C14_Witness ==
    /\ Ticked
    /\ prev.target = Above
    /\ prev.track.headYaw > 0
    /\ track.headYaw = prev.track.headYaw
    /\ track.lastHeadPitch > prev.track.headPitch

\* C14 witness for the other side: the target straight below.
C14_WitnessBelow ==
    /\ Ticked
    /\ prev.target = Below
    /\ prev.track.headYaw > 0
    /\ track.lastHeadPitch < prev.track.headPitch

Status200 == http.fetch.kind = "response" /\ http.fetch.status = 200

\* C16: an operation other than checkConnection throws whenever the fetch
\* threw, gave no response or a status other than 200, and with status 200
\* and a well-formed body returns its data (the uuid for playRecordedMove
\* and goto, the parsed body for the two listings, nothing for stopMove and
\* setTarget); checkConnection never throws and returns true exactly when
\* the status is 200.
C16_TransportErrors ==
    http.phase = "done" =>
        IF http.op = "checkConnection"
        THEN ~http.result.threw /\ (http.result.value <=> Status200)
        ELSE /\ ~Status200 => http.result.threw
             /\ ~http.result.threw => Status200
             /\ (Status200 /\ ~http.fetch.body.malformed) =>
                   /\ ~http.result.threw
                   /\ http.op \in {"playRecordedMove", "goto"}
                         => http.result.value = http.fetch.body.uuid
                   /\ http.op \in {"listRecordedMoves", "getRunningMoves"}
                         => http.result.value = http.fetch.body
                   /\ http.op \in {"stopMove", "setTarget"}
                         => http.result.value = undefined

\* C16 witness: the health check has returned false for a 404 response.
C16_Witness ==
    /\ http.phase = "done"
    /\ http.op = "checkConnection"
    /\ http.fetch.kind = "response"
    /\ http.fetch.status = 404
    /\ http.result = Returned(FALSE)

\* C16 witness for the throwing operations: setTarget after a fetch that
\* threw.
C16_WitnessThrows ==
    /\ http.phase = "done"
    /\ http.op = "setTarget"
    /\ http.fetch.kind = "throws"
    /\ http.result.threw

\* C17: when a set-target call fails (or succeeds) nothing is sent in
\* reaction and no field of the controller or of the tracking state changes;
\* and every command an update sends is computed from the tracking state of
\* that update alone, whatever became of the earlier calls.
C17_FireAndForget ==
    [][ /\ ( out' # <<>> /\ out'[1].op = "setTargetReturned" )
            => ( /\ Len(out') = 1
                 /\ pendingSetTarget' = pendingSetTarget - 1
                 /\ UNCHANGED <<currentState, currentAnimation,
                                attentive2MoveUuid, isAttentive2Looping,
                                lookAtUpdateEvent, idleUpdateEvent,
                                lastMoveCheckTime, moveStartTime, track,
                                entityEnabled, tweens, animCount, pendingGoto,
                                pendingPlay, pendingQuery, running,
                                stopRequested, prev, sentPose>> )
        /\ ( out' # <<>> /\ out'[Len(out')].op = "setTarget" )
            => ( /\ track' = nextTracking(track, target, now')
                 /\ sentPose' =
                       targetPose(track',
                           computeWobble(now' - track.trackingStartTime,
                                         PITCH_WOBBLE_AMPLITUDE, 1000, 0),
                           computeWobble(now' - track.trackingStartTime,
                                         YAW_WOBBLE_AMPLITUDE, 700, 150000))
                 /\ Len(SelectSeq(out', LAMBDA e : e.op = "setTarget")) = 1 ) ]_vars

\* C17 witness: a set-target call has failed, and an update has run since
\* (one call of the two is still unsettled).
C17_Witness ==
    /\ out = <<[op |-> "setTargetReturned", arg |-> 0]>>
    /\ pendingSetTarget = 1
    /\ currentState = LookAtTarget
    /\ lookAtUpdateEvent

\* C17 witness for the next tick: an update has sent its command while the
\* state shows that an earlier call has settled.
C17_WitnessNextTick ==
    /\ Ticked
    /\ pendingSetTarget = 1
    /\ prev.track # ResetTracking(prev.track.trackingStartTime)

\* C18: when the neutral-pose goto fails, the start of the idle loop goes
\* on as after a success: the looping flag is left as it is, the completion
\* poll is registered if it was not, and with the flag set the first
\* playRecordedMove is sent.
C18_GotoErrorNonFatal ==
    [][ ( out' # <<>> /\ out'[1] = [op |-> "gotoReturned", arg |-> 0] )
        => ( /\ isAttentive2Looping' = isAttentive2Looping
             /\ idleUpdateEvent'
             /\ ~idleUpdateEvent => "createIdleEvent" \in {out'[i].op : i \in DOMAIN out'}
             /\ isAttentive2Looping =>
                   /\ out'[Len(out')].op = "playRecordedMove"
                   /\ pendingPlay' = pendingPlay + 1
             /\ UNCHANGED <<currentState, attentive2MoveUuid, lastMoveCheckTime,
                            moveStartTime>> ) ]_vars

\* C18 witness: in Idle the goto has failed; the poll is registered, the
\* flag is set and the playback request is on its way.
C18_Witness ==
    /\ currentState = Idle
    /\ out = <<[op |-> "gotoReturned", arg |-> 0],
               [op |-> "createIdleEvent", arg |-> 0],
               [op |-> "playRecordedMove", arg |-> 0]>>
    /\ isAttentive2Looping
    /\ idleUpdateEvent
    /\ pendingPlay = 1

\* the operations that send a request to the daemon
DaemonOps == {"goto", "playRecordedMove", "stopMove", "getRunningMoves",
              "setTarget"}

\* C19: with no DaemonInterface bound, the idle loop never sets its flag and
\* no command is ever sent; a frame leaves the tracking state as it is; and
\* a button event that asks for the other state still changes the state and
\* starts its tween.
C19_ConfigurationError ==
    /\ [](~daemonInterface =>
            /\ ~isAttentive2Looping
            /\ ~idleUpdateEvent
            /\ pendingGoto = 0 /\ pendingPlay = 0 /\ pendingQuery = {}
            /\ pendingSetTarget = 0
            /\ sentPose = NoPose
            /\ Ops \cap (DaemonOps \cup {"startAttentive2Loop"}) = {})
    /\ [][ ~daemonInterface =>
             /\ frames' # frames => track' = track
             /\ ( out' # <<>> /\ out'[1].op = "onValueChange"
                   /\ currentState # (IF out'[1].arg = 1 THEN LookAtTarget ELSE Idle) )
                 => ( /\ currentState' = (IF out'[1].arg = 1 THEN LookAtTarget ELSE Idle)
                      /\ animCount' = animCount + 1 ) ]_vars

\* C19 witness: with no DaemonInterface bound the controller was switched
\* to LookAtTarget, its show tween has ended and a frame has run with the
\* synthesizer's update registered.
C19_Witness ==
    /\ ~daemonInterface
    /\ currentState = LookAtTarget
    /\ lookAtUpdateEvent
    /\ now > track.trackingStartTime
    /\ track = ResetTracking(track.trackingStartTime)

\* C19 witness for the idle side: with no DaemonInterface bound the hide
\* tween of an Idle entry has ended and nothing was started.
C19_WitnessIdle ==
    /\ ~daemonInterface
    /\ currentState = Idle
    /\ out = <<[op |-> "animationResolved", arg |-> 0]>>

\* the angles the head is asked to reach
Desired == computeDesiredAngles(track.headYaw, target)

\* x lies between a and b
Between(x, a, b) == (a <= x /\ x <= b) \/ (b <= x /\ x <= a)

\* C20: with the target held, an update leaves headYaw and headPitch
\* between their value before it and the desired angle (they move towards
\* it and not past it) and bodyYaw between its value before it and headYaw;
\* and from some update on headYaw and headPitch stay within the tolerance
\* of the desired angles and bodyYaw within the tolerance of headYaw.
C20_Convergence ==
    /\ [](Ticked =>
            /\ Between(track.headYaw, prev.track.headYaw, Desired.yaw)
            /\ Between(track.headPitch, prev.track.headPitch, Desired.pitch)
            /\ Between(track.bodyYaw, prev.track.bodyYaw, track.headYaw))
    /\ <>[]( /\ Abs(Desired.yaw - track.headYaw) <= Tolerance
             /\ Abs(Desired.pitch - track.headPitch) <= Tolerance
             /\ Abs(track.headYaw - track.bodyYaw) <= Tolerance )

\* C20 witness: the target is held to the right; head and body have turned
\* to within the tolerance of PI / 2.
C20_Witness ==
    /\ Ticked
    /\ target = Right
    /\ Abs(90000 - track.headYaw) <= Tolerance
    /\ Abs(90000 - track.bodyYaw) <= 2 * Tolerance
    /\ track.bodyYaw > 0

\* the running-moves query whose answer the step consumes
Answered == CHOOSE q \in pendingQuery : q \notin pendingQuery'

\* C21: when, looping in Idle, a running-moves query returns an answer, a
\* playRecordedMove is sent in the same handler run if the remembered task
\* id is not in the answer, and nothing is sent if it is.
C21_CompletionDetection ==
    [][ ( /\ out' # <<>>
          /\ out'[1] = [op |-> "runningMovesReturned", arg |-> 1]
          /\ currentState = Idle
          /\ isAttentive2Looping )
        => IF attentive2MoveUuid \in Answered.runningMoves
           THEN Len(out') = 1 /\ pendingPlay' = pendingPlay
           ELSE /\ Len(out') = 2
                /\ out'[2].op = "playRecordedMove"
                /\ pendingPlay' = pendingPlay + 1 ]_vars

\* C21 witness: in Idle the answer did not hold the remembered task id and
\* the playback request has been sent.
C21_Witness ==
    /\ currentState = Idle
    /\ isAttentive2Looping
    /\ attentive2MoveUuid # 0
    /\ out = <<[op |-> "runningMovesReturned", arg |-> 1],
               [op |-> "playRecordedMove", arg |-> 0]>>

\* C21 witness for the other side: the move is still running and the answer
\* has been taken without sending anything.
C21_WitnessRunning ==
    /\ currentState = Idle
    /\ isAttentive2Looping
    /\ attentive2MoveUuid \in running
    /\ out = <<[op |-> "runningMovesReturned", arg |-> 1]>>

\* C22: after every update motionIntensity is in [0, 1] (0 .. 10000 here).
C22_IntensityRange ==
    Ticked => (0 <= track.motionIntensity /\ track.motionIntensity <= 10000)

\* C22 witness: the head has been turning at its largest step for a while
\* and motionIntensity has risen above 0.4.
C22_Witness ==
    /\ Ticked
    /\ track.motionIntensity > 4000
    /\ Abs(track.lastHeadYaw - prev.track.lastHeadYaw) = MAX_YAW_CHANGE_PER_FRAME

\* C23: when a running-moves query fails while the loop is looping, a
\* playRecordedMove is sent if the fallback duration had elapsed between the
\* last launch's return and the poll, and none is sent while less than the
\* fallback duration has passed since playRecordedMove was last called.
C23_FallbackTimer ==
    [][ ( /\ out' # <<>>
          /\ out'[1] = [op |-> "runningMovesReturned", arg |-> 0] )
        => /\ ( isAttentive2Looping
                /\ Answered.currentTime - moveStartTime >= FALLBACK_DURATION )
                 => ( Len(out') = 2 /\ out'[2].op = "playRecordedMove" )
           /\ ( lastLaunchTime >= 0 /\ now - lastLaunchTime < FALLBACK_DURATION )
                 => Len(out') = 1 ]_vars

\* C24 as stated: with the target held, whenever |headYaw - bodyYaw| exceeds
\* MAX_HEAD_YAW a later update brings it back to MAX_HEAD_YAW or less.
C24_LimitRestored == [](Excess(track) > 0 => <>(Excess(track) <= 0))

\* C24 amended: with the target held, whenever |headYaw - bodyYaw| exceeds
\* MAX_HEAD_YAW, from some later update on it stays within Tolerance of
\* MAX_HEAD_YAW.
C24_LimitApproached == [](Excess(track) > 0 => <>[](Excess(track) <= Tolerance))

\* C24 witness: the target was held, the excess was above Tolerance before
\* the update and is within Tolerance, but still positive, after it.
C24_Witness ==
    /\ Ticked
    /\ prev.held
    /\ Excess(prev.track) > Tolerance
    /\ Excess(track) <= Tolerance
    /\ Excess(track) > 0

\* C24 witness: the head is at rest at the desired yaw and the excess is
\* still positive.
C24_WitnessAtRest ==
    /\ Ticked
    /\ prev.held
    /\ track.headYaw = prev.track.headYaw
    /\ track.bodyYaw = prev.track.bodyYaw
    /\ Excess(track) > 0

\* C25: a handler run that requests a stop of a move requests it for the
\* remembered task id and leaves no task id remembered, and a completion
\* check that was in flight when stopAttentive2Loop ran sends no
\* playRecordedMove when its running-moves query returns.
C25_StoppedCheckInert ==
    [][ /\ \A i \in DOMAIN out' :
              out'[i].op = "stopMove"
                  => out'[i].arg = attentive2MoveUuid /\ attentive2MoveUuid' = 0
        /\ ( /\ out' # <<>>
             /\ out'[1].op = "runningMovesReturned"
             /\ Answered.stopped )
               => Len(out') = 1 ]_vars

\* C26: when a hide tween ends while isAttentive2Looping is already set, the
\* start of the idle loop that follows sends no goto and no playRecordedMove,
\* registers no poll and changes nothing of the loop's state.
C26_DoubleStartGuard ==
    [][ ( /\ out' # <<>>
          /\ out'[1] = [op |-> "animationResolved", arg |-> 0]
          /\ isAttentive2Looping )
        => /\ Len(out') = 1
           /\ UNCHANGED <<isAttentive2Looping, lastMoveCheckTime, moveStartTime,
                          attentive2MoveUuid, idleUpdateEvent, pendingGoto,
                          pendingPlay, pendingQuery, running, stopRequested,
                          lastLaunchTime>> ]_vars

\* C26 witness: a hide tween has ended in Idle with the loop already looping
\* and nothing but the resolution of its promise has happened.
C26_Witness ==
    /\ currentState = Idle
    /\ daemonInterface
    /\ isAttentive2Looping
    /\ tweens = {}
    /\ out = <<[op |-> "animationResolved", arg |-> 0]>>

\* C27: in a handler run that cancels a tween, the promise of that tween is
\* resolved after the cancellation and the transition that awaited it goes
\* on as after the tween's end: after a cancelled show the synthesizer's
\* update is registered, after a cancelled hide the idle loop is looping
\* (when there is a daemon interface).
C27_CancelContinues ==
    [][ \A i \in DOMAIN out' :
            out'[i].op = "cancelAnimation"
                => \E tw \in tweens :
                      /\ tw.id = out'[i].arg
                      /\ tw \notin tweens'
                      /\ \E j \in DOMAIN out' :
                            /\ j > i
                            /\ out'[j] = [op |-> "animationResolved",
                                          arg |-> IF tw.show THEN 1 ELSE 0]
                      /\ tw.show => lookAtUpdateEvent'
                      /\ (~tw.show /\ daemonInterface) => isAttentive2Looping' ]_vars

\* C27 witness: a hide tween has been cancelled by the transition to
\* LookAtTarget and the start of the idle loop has followed.
C27_Witness ==
    /\ currentState = LookAtTarget
    /\ isAttentive2Looping
    /\ Len(out) >= 5
    /\ out[2].op = "cancelAnimation"
    /\ [op |-> "animationResolved", arg |-> 0] \in {out[i] : i \in 3..Len(out)}
    /\ out[Len(out) - 1].op = "startAttentive2Loop"

\* C27 witness for a cancelled show: the transition to Idle has cancelled it
\* and the synthesizer's update has been registered after it.
C27_WitnessShow ==
    /\ currentState = Idle
    /\ lookAtUpdateEvent
    /\ "cancelAnimation" \in Ops
    /\ out[Len(out) - 1] = [op |-> "animationResolved", arg |-> 1]
    /\ out[Len(out)].op = "createLookAtEvent"

\* C28: a playRecordedMove is sent only when no earlier playRecordedMove is
\* awaiting its response and the remembered move is not running, and the
\* remembered task id is replaced only when its move has finished or has
\* been asked to stop.
C28_OneLaunchAtATime ==
    [][ /\ "playRecordedMove" \in {out'[i].op : i \in DOMAIN out'}
            => pendingPlay = 0 /\ attentive2MoveUuid \notin running
        /\ (attentive2MoveUuid # 0 /\ attentive2MoveUuid' # attentive2MoveUuid)
            => attentive2MoveUuid \notin running
               \/ attentive2MoveUuid \in stopRequested' ]_vars

\* C29: once every tween has finished, the proxy entity is enabled exactly
\* when the controller is in LookAtTarget.
C29_EntityFollowsState ==
    (tweens = {} /\ currentState # Uninitialized)
        => (entityEnabled <=> currentState = LookAtTarget)

\* C30: at most one tween is in progress, and currentAnimation holds the
\* cancel handle of the tween in progress.
C30_OneTweenWithHandle ==
    /\ Cardinality(tweens) <= 1
    /\ \A tw \in tweens : currentAnimation = tw.id

\* the configuration that matches the controller state
Settled ==
    /\ currentState = Idle
           => isAttentive2Looping /\ idleUpdateEvent /\ attentive2MoveUuid # 0
    /\ currentState = LookAtTarget => lookAtUpdateEvent
    /\ currentState # Uninitialized

\* C31: with a daemon interface bound, playback requests that succeed and
\* every tween and call completing, the controller eventually reaches and
\* keeps the configuration that matches its state (Idle: looping, poll
\* registered, a move launched; LookAtTarget: the synthesizer's update
\* registered), and with that update registered in LookAtTarget every frame
\* sends a set-target command.
C31_Settles ==
    /\ <>[]Settled
    /\ [][ (now' # now /\ currentState = LookAtTarget /\ lookAtUpdateEvent)
              => "setTarget" \in {out'[i].op : i \in DOMAIN out'} ]_vars

\* C31 witness: after the button went on and off again the controller is in
\* Idle with nothing pending, the loop looping, the poll registered and a
\* move launched.
C31_Witness ==
    /\ toggles >= 2
    /\ currentState = Idle
    /\ tweens = {} /\ pendingGoto = 0 /\ pendingPlay = 0 /\ pendingQuery = {}
    /\ isAttentive2Looping
    /\ idleUpdateEvent
    /\ attentive2MoveUuid # 0

\* C31 witness for LookAtTarget: after the button went on, the show tween has
\* ended and a frame has sent a set-target command.
C31_WitnessLookAt ==
    /\ toggles >= 1
    /\ currentState = LookAtTarget
    /\ tweens = {} /\ pendingGoto = 0 /\ pendingPlay = 0
    /\ lookAtUpdateEvent
    /\ Ticked

\* C32: the desired pitch of an update has the sign of the snap branch on
\* both sides of the singularity threshold: that of MAX_PITCH for a target
\* above the look-at centre, that of MIN_PITCH for a target below it.
C32_PitchSign ==
    Ticked =>
        LET pitch == computeDesiredAngles(prev.track.headYaw, prev.target).pitch
        IN  /\ prev.target.y > 0 => Sign(pitch) = Sign(MAX_PITCH)
            /\ prev.target.y < 0 => Sign(pitch) = Sign(MIN_PITCH)

====
